---- MODULE Spec2Model ----
(***************************************************************************)
(* Organization lifecycle service (app/routes/orgs.py).                    *)
(*                                                                         *)
(* Four request handlers (create_org, get_org, update_org, delete_org) run *)
(* as coroutines over a document store holding the collections             *)
(* `organizations` and `admins` plus one tenant collection per             *)
(* organization.  Every awaited store call is one atomic step; between     *)
(* two awaits of one request the steps of other requests may interleave,   *)
(* and any store call may raise, which ends the request with no rollback.  *)
(***************************************************************************)
EXTENDS Integers, Sequences, FiniteSets, TLC

\* ------------------------------------------------------------------ bounds
NumProcs == 2          \* request handlers that may be in flight together
MaxRequests == 3       \* requests accepted when served concurrently
MaxSeqRequests == 3    \* requests accepted when served one at a time
MaxLifeRequests == 4   \* requests of a create, rename, re-create, reuse history

Procs == 1..NumProcs

\* ------------------------------------------------------------- input sets
\* Strings are sequences of characters.  Python's None in an optional string
\* field is a value no character sequence equals.
None == <<"None">>
NoDoc == [none |-> TRUE]   \* Python's None where a document is expected

\* Raw organization names.
RawNames == { <<"a">>, <<" ", "A">>, <<"B", " ">>, <<"c">> }

\* Credentials of a create payload.
Emails == { <<"e", "1">> }
Passwords == { <<"p", "1">> }
\* Optional credentials of an update payload, as <<email, password>>; <<>> is
\* the empty string.
Credentials == { <<None, None>>, <<<<"e", "2">>, None>>, <<None, <<"p", "2">>>>,
                 <<<<"e", "2">>, <<"p", "2">>>>, <<None, <<>>>> }

\* ------------------------------------------------------- pure functions
\* str.lower() on one character.
LowerChar(c) == CASE c = "A" -> "a" [] c = "B" -> "b" [] OTHER -> c

\* str.lower()
Lower(s) == [i \in 1..Len(s) |-> LowerChar(s[i])]

IsSpace(c) == c = " "

RECURSIVE LStrip(_)
LStrip(s) == IF s # <<>> /\ IsSpace(Head(s)) THEN LStrip(Tail(s)) ELSE s

RECURSIVE RStrip(_)
RStrip(s) == IF s # <<>> /\ IsSpace(s[Len(s)])
             THEN RStrip(SubSeq(s, 1, Len(s) - 1)) ELSE s

\* str.strip()
Strip(s) == RStrip(LStrip(s))

\* name.strip().lower()
Normalize(s) == Lower(Strip(s))

\* f"org_{org_name}"
CollectionName(org_name) == <<"o", "r", "g", "_">> \o org_name

\* bson.ObjectId(hex string) and str(ObjectId)
ObjectId(s) == [oid |-> s]
StrId(o) == o.oid

\* Python truthiness of an optional string field.
Truthy(x) == x # None /\ x # <<>>

\* Credential store: hash(plaintext) and verify(plaintext, hash).
hash_password(pw) == <<"$", "2", "b", "$">> \o pw
verify_password(pw, h) == h = hash_password(pw)

\* ----------------------------------------------------------------- state
VARIABLES
    organizations,   \* db.organizations: sequence of documents, natural order
    admins,          \* db.admins: set of documents (only ever keyed by _id)
    colls,           \* names of the tenant collections that exist
    nextOid,         \* next ObjectId the store hands out
    tokens,          \* caller identities {admin_id, org_id} issued so far
    nreq,            \* requests accepted so far
    pc,              \* per handler: the await it is suspended at
    req,             \* per handler: the request being served
    org,             \* per handler: local `org` (update_org, delete_org)
    res,             \* per handler: local `res.inserted_id` (create_org)
    wlog,            \* per handler: store writes issued by the request
    resp             \* per handler: the response of the finished request

vars == <<organizations, admins, colls, nextOid, tokens, nreq,
          pc, req, org, res, wlog, resp>>

store == <<organizations, admins, colls>>

NoReq == [op |-> "none"]
NoResp == [status |-> 0]

Init ==
    /\ organizations = <<>>
    /\ admins = {}
    /\ colls = {}
    /\ nextOid = 1
    /\ tokens = {}
    /\ nreq = 0
    /\ pc = [p \in Procs |-> "idle"]
    /\ req = [p \in Procs |-> NoReq]
    /\ org = [p \in Procs |-> NoDoc]
    /\ res = [p \in Procs |-> NoDoc]
    /\ wlog = [p \in Procs |-> {}]
    /\ resp = [p \in Procs |-> NoResp]

\* ------------------------------------------------------ store primitives
\* Indices of the documents of db.organizations matching {"organization_name": n}
Matching(orgs, n) == { i \in 1..Len(orgs) : orgs[i].organization_name = n }

Min(S) == CHOOSE i \in S : \A j \in S : i <= j

\* db.organizations.find_one({"organization_name": n}): first match or None
find_one(orgs, n) ==
    IF Matching(orgs, n) = {} THEN NoDoc ELSE orgs[Min(Matching(orgs, n))]

\* db.organizations.delete_one({"organization_name": n}): removes the first match
RemoveAt(s, i) == SubSeq(s, 1, i - 1) \o SubSeq(s, i + 1, Len(s))

delete_one(orgs, n) ==
    IF Matching(orgs, n) = {} THEN orgs ELSE RemoveAt(orgs, Min(Matching(orgs, n)))

\* mutant of RenameOrgDoc: the $set leaves collection_name out
RenameOrgDocNameOnly(o, new_org_name) ==
    [o EXCEPT !.organization_name = new_org_name]

\* db.organizations.update_one({"_id": id}, {"$set": {organization_name, collection_name}})
RenameOrgDoc(o, new_org_name) ==
    [o EXCEPT !.organization_name = new_org_name,
              !.collection_name = CollectionName(new_org_name)]

\* mutant of update_org_doc: the filter is empty, the first document is rewritten
update_org_doc_first(orgs, id, new_org_name) ==
    [i \in 1..Len(orgs) |->
        IF i = 1 THEN RenameOrgDoc(orgs[i], new_org_name) ELSE orgs[i]]

update_org_doc(orgs, id, new_org_name) ==
    [i \in 1..Len(orgs) |->
        IF orgs[i]._id = id THEN RenameOrgDoc(orgs[i], new_org_name) ELSE orgs[i]]

\* db.admins.update_one({"_id": id}, {"$set": {field: value}})
SetAdminField(a, field, value) ==
    CASE field = "organization" -> [a EXCEPT !.organization = value]
      [] field = "email"        -> [a EXCEPT !.email = value]
      [] field = "password"     -> [a EXCEPT !.password = value]

update_admin(adm, id, field, value) ==
    { IF a._id = id THEN SetAdminField(a, field, value) ELSE a : a \in adm }

\* db.admins.delete_one({"_id": id})
delete_admin(adm, id) == { a \in adm : a._id # id }

\* A document as the handlers return it: ObjectIds turned into strings.
PublicOrg(o) == [o EXCEPT !._id = StrId(o._id)]

\* ------------------------------------------------------------- responses
Ok(body) == [status |-> 200, body |-> body]
Err(code) == [status |-> code]

\* The request of p ends with response r.
Finish(p, r) ==
    /\ pc' = [pc EXCEPT ![p] = "done"]
    /\ resp' = [resp EXCEPT ![p] = r]
    /\ UNCHANGED <<org, res>>

\* p accepts a new request rq and suspends at its first store call.
Begin(p, rq, first) ==
    /\ pc[p] = "idle"
    /\ nreq' = nreq + 1
    /\ pc' = [pc EXCEPT ![p] = first]
    /\ req' = [req EXCEPT ![p] = rq]
    /\ UNCHANGED <<store, nextOid, tokens, org, res, wlog, resp>>

\* The response of p has been sent; the handler is free for the next request.
Return(p) ==
    /\ pc[p] = "done"
    /\ pc' = [pc EXCEPT ![p] = "idle"]
    /\ req' = [req EXCEPT ![p] = NoReq]
    /\ resp' = [resp EXCEPT ![p] = NoResp]
    /\ wlog' = [wlog EXCEPT ![p] = {}]
    /\ org' = [org EXCEPT ![p] = NoDoc]
    /\ res' = [res EXCEPT ![p] = NoDoc]
    /\ UNCHANGED <<store, nextOid, tokens, nreq>>

Goto(p, l) == pc' = [pc EXCEPT ![p] = l]

Log(p, w) == wlog' = [wlog EXCEPT ![p] = @ \cup {w}]


\* ------------------------------------------- collection provisioner (app.db)
\* create_org_collection(org_name)
create_org_collection(cs, org_name) == cs \cup {CollectionName(org_name)}

\* drop_org_collection(org_name)
drop_org_collection(cs, org_name) == cs \ {CollectionName(org_name)}

\* rename_and_sync_collection(old, new): the data is copied under the new
\* name; whether the old collection survives the migration is left open, so
\* both outcomes are possible.
rename_and_sync_collection(cs, old_name, new_name) ==
    { cs \cup {CollectionName(new_name)},
      (cs \ {CollectionName(old_name)}) \cup {CollectionName(new_name)} }

\* -------------------------------------------------------------- auth (app.auth)
\* get_current_admin resolves a credential token into the caller identity
\* {admin_id, org_id}.  A token is issued by a login of an existing admin
\* and carries its id and the organization it administers at that moment;
\* it stays valid when the records change afterwards.  `tokens` holds every
\* identity some login could have issued so far: it grows whenever an Admin
\* record is inserted or its organization back-reference is rewritten.
Identity(a) == [admin_id |-> StrId(a._id), org_id |-> a.organization]

Issue(adm) == tokens' = tokens \cup { Identity(a) : a \in adm }

\* ---------------------------------------------------------------- create_org
StartCreate(p) ==
    \E n \in RawNames, e \in Emails, pw \in Passwords :
        Begin(p, [op |-> "create", organization_name |-> n,
                  email |-> e, password |-> pw], "c_find")

\* mutant of CreateName: strip() is forgotten
CreateNameUnstripped(p) == Lower(req[p].organization_name)

\* line 16: org_name = payload.organization_name.strip().lower()
CreateName(p) == Normalize(req[p].organization_name)

\* line 18-20: existing = find_one(...); if existing: raise 400
CreateFind(p) ==
    /\ pc[p] = "c_find"
    /\ IF find_one(organizations, CreateName(p)) # NoDoc
       THEN /\ Finish(p, Err(400))
       ELSE /\ Goto(p, "c_coll")
            /\ UNCHANGED <<org, res, resp>>
    /\ UNCHANGED <<store, nextOid, tokens, nreq, req, wlog>>

\* line 24: await create_org_collection(org_name)
CreateColl(p) ==
    /\ pc[p] = "c_coll"
    /\ colls' = create_org_collection(colls, CreateName(p))
    /\ Log(p, [c |-> "tenant", name |-> CollectionName(CreateName(p))])
    /\ Goto(p, "c_admin")
    /\ UNCHANGED <<organizations, admins, nextOid, tokens, nreq, req, org, res, resp>>

\* lines 27-32
AdminDoc(id, email, password, org_name) ==
    [_id |-> id, email |-> email, password |-> hash_password(password),
     role |-> "admin", organization |-> org_name]

\* line 33: res = await db.admins.insert_one(admin_doc)
CreateAdmin(p) ==
    /\ pc[p] = "c_admin"
    /\ admins' = admins \cup
          {AdminDoc(ObjectId(nextOid), req[p].email, req[p].password, CreateName(p))}
    /\ res' = [res EXCEPT ![p] = ObjectId(nextOid)]
    /\ nextOid' = nextOid + 1
    /\ Log(p, [c |-> "admins", id |-> ObjectId(nextOid)])
    /\ Goto(p, "c_org")
    /\ Issue(admins')
    /\ UNCHANGED <<organizations, colls, nreq, req, org, resp>>

\* lines 35-40
OrgDoc(id, org_name, admin_id, now) ==
    [_id |-> id, organization_name |-> org_name,
     collection_name |-> CollectionName(org_name),
     admin_id |-> admin_id, created_at |-> now]

\* mutant of CreateOrg: a unique index on organization_name makes the insert
\* of a second record of the name raise
CreateOrgUnique(p) ==
    /\ pc[p] = "c_org"
    /\ organizations' =
          IF find_one(organizations, CreateName(p)) # NoDoc
          THEN organizations
          ELSE Append(organizations,
                      OrgDoc(ObjectId(nextOid), CreateName(p), StrId(res[p]), nextOid))
    /\ nextOid' = nextOid + 1
    /\ Log(p, [c |-> "organizations", id |-> ObjectId(nextOid)])
    /\ Finish(p, IF find_one(organizations, CreateName(p)) # NoDoc
                 THEN Err(500)
                 ELSE Ok([organization_name |-> CreateName(p),
                          collection_name |-> CollectionName(CreateName(p)),
                          admin_id |-> StrId(res[p])]))
    /\ UNCHANGED <<admins, colls, tokens, nreq, req>>

\* line 41-43: await db.organizations.insert_one(org_doc); return {...}
CreateOrg(p) ==
    /\ pc[p] = "c_org"
    /\ organizations' = Append(organizations,
          OrgDoc(ObjectId(nextOid), CreateName(p), StrId(res[p]), nextOid))
    /\ nextOid' = nextOid + 1
    /\ Log(p, [c |-> "organizations", id |-> ObjectId(nextOid)])
    /\ Finish(p, Ok([organization_name |-> CreateName(p),
                     collection_name |-> CollectionName(CreateName(p)),
                     admin_id |-> StrId(res[p])]))
    /\ UNCHANGED <<admins, colls, tokens, nreq, req>>

\* ------------------------------------------------------------------- get_org
StartGet(p) ==
    \E n \in RawNames :
        Begin(p, [op |-> "get", organization_name |-> n], "g_find")

\* mutant of get_org: the name is looked up as given
get_org_raw(orgs, organization_name) ==
    IF find_one(orgs, organization_name) = NoDoc
    THEN Err(404)
    ELSE Ok(PublicOrg(find_one(orgs, organization_name)))

\* lines 49-55 as a function of the store
get_org(orgs, organization_name) ==
    IF find_one(orgs, Normalize(organization_name)) = NoDoc
    THEN Err(404)
    ELSE Ok(PublicOrg(find_one(orgs, Normalize(organization_name))))

GetFind(p) ==
    /\ pc[p] = "g_find"
    /\ Finish(p, get_org(organizations, req[p].organization_name))
    /\ UNCHANGED <<store, nextOid, tokens, nreq, req, wlog>>


\* ---------------------------------------------------------------- update_org
StartUpdate(p) ==
    \E c \in tokens, n \in RawNames, cr \in Credentials :
        Begin(p, [op |-> "update", caller |-> c, organization_name |-> n,
                  email |-> cr[1], password |-> cr[2]], "u_find")

\* mutant of NewOrgName: the payload name is used as sent
NewOrgNameRaw(p) == req[p].organization_name

\* line 70: new_org_name = payload.organization_name.strip().lower()
NewOrgName(p) == Normalize(req[p].organization_name)

\* local target_org_name: current_admin["org_id"] until line 97, then the new
\* name; it equals org["organization_name"] from line 66 on (lines 66, 97-98).
TargetOrgName(p) == org[p].organization_name

\* mutant of AfterRename: the credential writes are issued whatever the payload carries
AfterRenameUnchecked(p) == "u_email"

\* line 103-109: the first credential write the payload asks for, else the re-read
AfterRename(p) ==
    IF Truthy(req[p].email) THEN "u_email"
    ELSE IF Truthy(req[p].password) THEN "u_pw"
    ELSE "u_read"

AfterEmail(p) == IF Truthy(req[p].password) THEN "u_pw" ELSE "u_read"

\* mutant of UpdateFind: the record is looked up by the name in the payload
UpdateFindByPayload(p) ==
    /\ pc[p] = "u_find"
    /\ LET found == find_one(organizations, NewOrgName(p)) IN
       IF found = NoDoc
       THEN /\ Finish(p, Err(404))
       ELSE /\ org' = [org EXCEPT ![p] = found]
            /\ Goto(p, IF NewOrgName(p) # req[p].caller.org_id
                       THEN "u_uniq" ELSE AfterRename(p))
            /\ UNCHANGED <<res, resp>>
    /\ UNCHANGED <<store, nextOid, tokens, nreq, req, wlog>>

\* lines 63-73: org = find_one({"organization_name": org_id}); 404 if missing
UpdateFind(p) ==
    /\ pc[p] = "u_find"
    /\ LET found == find_one(organizations, req[p].caller.org_id) IN
       IF found = NoDoc
       THEN /\ Finish(p, Err(404))
       ELSE /\ org' = [org EXCEPT ![p] = found]
            /\ Goto(p, IF NewOrgName(p) # req[p].caller.org_id
                       THEN "u_uniq" ELSE AfterRename(p))
            /\ UNCHANGED <<res, resp>>
    /\ UNCHANGED <<store, nextOid, tokens, nreq, req, wlog>>

\* lines 75-77: existing = find_one({"organization_name": new_org_name}); 400 if taken
UpdateUniq(p) ==
    /\ pc[p] = "u_uniq"
    /\ IF find_one(organizations, NewOrgName(p)) # NoDoc
       THEN /\ Finish(p, Err(400))
       ELSE /\ Goto(p, "u_org")
            /\ UNCHANGED <<org, res, resp>>
    /\ UNCHANGED <<store, nextOid, tokens, nreq, req, wlog>>

\* mutant of UpdateOrg: the filter matches no record, nothing is modified
UpdateOrgNoMatch(p) ==
    /\ pc[p] = "u_org"
    /\ organizations' = organizations
    /\ Log(p, [c |-> "organizations", id |-> org[p]._id])
    /\ Goto(p, "u_admin")
    /\ UNCHANGED <<admins, colls, nextOid, tokens, nreq, req, org, res, resp>>

\* lines 81-85: organizations.update_one({"_id": org["_id"]}, {"$set": {...}})
UpdateOrg(p) ==
    /\ pc[p] = "u_org"
    /\ organizations' = update_org_doc(organizations, org[p]._id, NewOrgName(p))
    /\ Log(p, [c |-> "organizations", id |-> org[p]._id])
    /\ Goto(p, "u_admin")
    /\ UNCHANGED <<admins, colls, nextOid, tokens, nreq, req, org, res, resp>>

\* mutant of UpdateAdmin: the back-reference is set to the old name
UpdateAdminOldName(p) ==
    /\ pc[p] = "u_admin"
    /\ admins' = update_admin(admins, ObjectId(req[p].caller.admin_id),
                              "organization", TargetOrgName(p))
    /\ Log(p, [c |-> "admins", id |-> ObjectId(req[p].caller.admin_id)])
    /\ Goto(p, "u_sync")
    /\ Issue(admins')
    /\ UNCHANGED <<organizations, colls, nextOid, nreq, req, org, res, resp>>

\* lines 87-90: admins.update_one({"_id": ObjectId(admin_id)}, {"$set": {"organization": ...}})
UpdateAdmin(p) ==
    /\ pc[p] = "u_admin"
    /\ admins' = update_admin(admins, ObjectId(req[p].caller.admin_id),
                              "organization", NewOrgName(p))
    /\ Log(p, [c |-> "admins", id |-> ObjectId(req[p].caller.admin_id)])
    /\ Goto(p, "u_sync")
    /\ Issue(admins')
    /\ UNCHANGED <<organizations, colls, nextOid, nreq, req, org, res, resp>>

\* lines 93-99: rename_and_sync_collection(old, new); the locals take the new name
UpdateSync(p) ==
    /\ pc[p] = "u_sync"
    /\ colls' \in rename_and_sync_collection(colls, TargetOrgName(p), NewOrgName(p))
    /\ org' = [org EXCEPT ![p] = RenameOrgDoc(@, NewOrgName(p))]
    /\ Log(p, [c |-> "tenant", name |-> CollectionName(NewOrgName(p))])
    /\ Goto(p, AfterRename(p))
    /\ UNCHANGED <<organizations, admins, nextOid, tokens, nreq, req, res, resp>>

\* lines 105-107: admins.update_one({"_id": ...}, {"$set": {"email": payload.email}})
UpdateEmail(p) ==
    /\ pc[p] = "u_email"
    /\ admins' = update_admin(admins, ObjectId(req[p].caller.admin_id),
                              "email", req[p].email)
    /\ Log(p, [c |-> "admins", id |-> ObjectId(req[p].caller.admin_id)])
    /\ Goto(p, AfterEmail(p))
    /\ UNCHANGED <<organizations, colls, nextOid, tokens, nreq, req, org, res, resp>>

\* mutant of UpdatePassword: the password is stored as sent
UpdatePasswordPlain(p) ==
    /\ pc[p] = "u_pw"
    /\ admins' = update_admin(admins, ObjectId(req[p].caller.admin_id),
                              "password", req[p].password)
    /\ Log(p, [c |-> "admins", id |-> ObjectId(req[p].caller.admin_id)])
    /\ Goto(p, "u_read")
    /\ UNCHANGED <<organizations, colls, nextOid, tokens, nreq, req, org, res, resp>>

\* lines 108-109: admins.update_one({"_id": ...}, {"$set": {"password": hash_password(...)}})
UpdatePassword(p) ==
    /\ pc[p] = "u_pw"
    /\ admins' = update_admin(admins, ObjectId(req[p].caller.admin_id),
                              "password", hash_password(req[p].password))
    /\ Log(p, [c |-> "admins", id |-> ObjectId(req[p].caller.admin_id)])
    /\ Goto(p, "u_read")
    /\ UNCHANGED <<organizations, colls, nextOid, tokens, nreq, req, org, res, resp>>

\* lines 112-115: updated_org = find_one({"organization_name": target_org_name});
\* subscripting None raises TypeError, which the framework answers with 500
UpdateRead(p) ==
    /\ pc[p] = "u_read"
    /\ LET updated_org == find_one(organizations, TargetOrgName(p)) IN
       Finish(p, IF updated_org = NoDoc THEN Err(500) ELSE Ok(PublicOrg(updated_org)))
    /\ UNCHANGED <<store, nextOid, tokens, nreq, req, wlog>>

\* ---------------------------------------------------------------- delete_org
StartDelete(p) ==
    \E c \in tokens, n \in RawNames :
        Begin(p, [op |-> "delete", caller |-> c, organization_name |-> n], "d_auth")

\* line 126: org_name = organization_name.strip().lower()
DeleteName(p) == Normalize(req[p].organization_name)

\* mutant of Authorized: the comparison is inverted
AuthorizedInverted(current_admin, organization_name) ==
    current_admin.org_id # Normalize(organization_name)

\* line 122: the caller may delete only its own organization
Authorized(current_admin, organization_name) ==
    current_admin.org_id = Normalize(organization_name)

\* lines 122-123
DeleteAuth(p) ==
    /\ pc[p] = "d_auth"
    /\ IF ~Authorized(req[p].caller, req[p].organization_name)
       THEN /\ Finish(p, Err(403))
       ELSE /\ Goto(p, "d_find")
            /\ UNCHANGED <<org, res, resp>>
    /\ UNCHANGED <<store, nextOid, tokens, nreq, req, wlog>>

\* lines 127-129
DeleteFind(p) ==
    /\ pc[p] = "d_find"
    /\ LET found == find_one(organizations, DeleteName(p)) IN
       IF found = NoDoc
       THEN /\ Finish(p, Err(404))
       ELSE /\ org' = [org EXCEPT ![p] = found]
            /\ Goto(p, "d_drop")
            /\ UNCHANGED <<res, resp>>
    /\ UNCHANGED <<store, nextOid, tokens, nreq, req, wlog>>

\* mutant of DeleteDrop: the drop leaves the collection in place
DeleteDropNothing(p) ==
    /\ pc[p] = "d_drop"
    /\ colls' = colls
    /\ Log(p, [c |-> "tenant", name |-> CollectionName(DeleteName(p))])
    /\ Goto(p, "d_admin")
    /\ UNCHANGED <<organizations, admins, nextOid, tokens, nreq, req, org, res, resp>>

\* line 132: await drop_org_collection(org_name)
DeleteDrop(p) ==
    /\ pc[p] = "d_drop"
    /\ colls' = drop_org_collection(colls, DeleteName(p))
    /\ Log(p, [c |-> "tenant", name |-> CollectionName(DeleteName(p))])
    /\ Goto(p, "d_admin")
    /\ UNCHANGED <<organizations, admins, nextOid, tokens, nreq, req, org, res, resp>>

\* mutant of DeleteAdmin: the caller's admin_id is used instead of the stored one
DeleteAdminOfCaller(p) ==
    /\ pc[p] = "d_admin"
    /\ admins' = delete_admin(admins, ObjectId(req[p].caller.admin_id))
    /\ Log(p, [c |-> "admins", id |-> ObjectId(req[p].caller.admin_id)])
    /\ Goto(p, "d_org")
    /\ UNCHANGED <<organizations, colls, nextOid, tokens, nreq, req, org, res, resp>>

\* line 134: admins.delete_one({"_id": ObjectId(org["admin_id"])})
DeleteAdmin(p) ==
    /\ pc[p] = "d_admin"
    /\ admins' = delete_admin(admins, ObjectId(org[p].admin_id))
    /\ Log(p, [c |-> "admins", id |-> ObjectId(org[p].admin_id)])
    /\ Goto(p, "d_org")
    /\ UNCHANGED <<organizations, colls, nextOid, tokens, nreq, req, org, res, resp>>

\* lines 136-138: organizations.delete_one({"organization_name": org_name})
DeleteOrg(p) ==
    /\ pc[p] = "d_org"
    /\ organizations' = delete_one(organizations, DeleteName(p))
    /\ Log(p, [c |-> "organizations", name |-> DeleteName(p)])
    /\ Finish(p, Ok([status |-> "deleted"]))
    /\ UNCHANGED <<admins, colls, nextOid, tokens, nreq, req>>

\* ------------------------------------------------------------ store failures
\* The awaits at which a request is suspended on a store call.
StoreCalls == {"c_find", "c_coll", "c_admin", "c_org", "g_find",
               "u_find", "u_uniq", "u_org", "u_admin", "u_sync",
               "u_email", "u_pw", "u_read",
               "d_find", "d_drop", "d_admin", "d_org"}

\* mutant of Fail: a create whose store call raises drops the tenant
\* collection it provisioned
FailUndo(p) ==
    /\ pc[p] \in StoreCalls
    /\ Finish(p, Err(500))
    /\ colls' = IF req[p].op = "create"
                THEN colls \ {w.name : w \in {v \in wlog[p] : v.c = "tenant"}}
                ELSE colls
    /\ UNCHANGED <<organizations, admins, nextOid, tokens, nreq, req, wlog>>

\* The pending store call raises: the error propagates, nothing is undone.
Fail(p) ==
    /\ pc[p] \in StoreCalls
    /\ Finish(p, Err(500))
    /\ UNCHANGED <<store, nextOid, tokens, nreq, req, wlog>>

\* ------------------------------------------------------------ specifications
Start(p) == StartCreate(p) \/ StartGet(p) \/ StartUpdate(p) \/ StartDelete(p)

Step(p) ==
    \/ CreateFind(p) \/ CreateColl(p) \/ CreateAdmin(p) \/ CreateOrg(p)
    \/ GetFind(p)
    \/ UpdateFind(p) \/ UpdateUniq(p) \/ UpdateOrg(p) \/ UpdateAdmin(p)
    \/ UpdateSync(p) \/ UpdateEmail(p) \/ UpdatePassword(p) \/ UpdateRead(p)
    \/ DeleteAuth(p) \/ DeleteFind(p) \/ DeleteDrop(p) \/ DeleteAdmin(p)
    \/ DeleteOrg(p)
    \/ Fail(p)
    \/ Return(p)

\* Requests are served concurrently: any handler may take its next step.
Next == \E p \in Procs : (nreq < MaxRequests /\ Start(p)) \/ Step(p)

Spec == Init /\ [][Next]_vars

\* Requests arrive one at a time: a request is accepted only when no other
\* request is being served.
Quiet == \A p \in Procs : pc[p] = "idle"

SeqNext ==
    \E p \in Procs : (Quiet /\ nreq < MaxSeqRequests /\ Start(p)) \/ Step(p)

SeqSpec == Init /\ [][SeqNext]_vars

\* Requests arrive one at a time, long enough for a name to be created,
\* given up by a rename, created again and addressed once more.
LifeNext ==
    \E p \in Procs : (Quiet /\ nreq < MaxLifeRequests /\ Start(p)) \/ Step(p)

LifeSpec == Init /\ [][LifeNext]_vars

TypeOK ==
    /\ pc \in [Procs -> {"idle", "done"} \cup StoreCalls \cup {"d_auth"}]
    /\ nextOid \in 1..(2 * nreq + 1)
    /\ nreq \in Nat

\* =================================================================== claims
UpdatePcs == {"u_find", "u_uniq", "u_org", "u_admin", "u_sync",
              "u_email", "u_pw", "u_read"}

\* The request p serves has answered
Answered(p, op, status) ==
    pc[p] = "done" /\ req[p].op = op /\ resp[p].status = status

\* C1: in every reachable state, under any interleaving of create, update
\* and delete requests, the organizations collection holds at most one
\* record for any given normalized organization_name.
C1_Uniqueness ==
    \A i, j \in 1..Len(organizations) :
        organizations[i].organization_name = organizations[j].organization_name
            => i = j

\* C2: a delete whose caller's org_id differs from the trimmed, lower-cased
\* target name is answered 403 Forbidden by its first step, whether or not an
\* organization of that name exists, and leaves organizations, admins and
\* the tenant collections unchanged.
C2_DeleteForbidden ==
    [][\A p \in Procs :
          (/\ pc[p] = "d_auth"
           /\ pc'[p] # "d_auth"
           /\ req[p].caller.org_id # Normalize(req[p].organization_name))
          => /\ pc'[p] = "done"
             /\ resp'[p] = Err(403)
             /\ wlog'[p] = {}
             /\ UNCHANGED store]_vars

\* C2 witness: a delete of an existing organization, named with blanks or
\* capitals, by the admin of another organization has been answered 403.
C2_Witness ==
    \E p \in Procs :
        /\ Answered(p, "delete", 403)
        /\ req[p].organization_name # Normalize(req[p].organization_name)
        /\ find_one(organizations, Normalize(req[p].organization_name)) # NoDoc
        /\ find_one(organizations, req[p].caller.org_id) # NoDoc

\* C4: every record of the organizations collection has
\* collection_name = "org_" + organization_name, after create and after
\* every rename, under any interleaving of requests.
C4_DerivedNaming ==
    \A i \in 1..Len(organizations) :
        organizations[i].collection_name =
            <<"o", "r", "g", "_">> \o organizations[i].organization_name

\* C4 witness: a rename has been answered 200 and the renamed record is stored.
C4_Witness ==
    \E p \in Procs :
        /\ Answered(p, "update", 200)
        /\ Normalize(req[p].organization_name) # req[p].caller.org_id
        /\ \E i \in 1..Len(organizations) :
              /\ organizations[i]._id = org[p]._id
              /\ organizations[i].organization_name = Normalize(req[p].organization_name)
              /\ organizations[i].collection_name =
                    <<"o", "r", "g", "_">> \o Normalize(req[p].organization_name)

\* p has answered 200 to an update that renamed the caller's organization
Renamed(p) ==
    /\ Answered(p, "update", 200)
    /\ Normalize(req[p].organization_name) # req[p].caller.org_id

\* C3: when an update that renames the caller's organization from A to B
\* has answered 200, get(A) answers NotFound, get(B) answers the renamed
\* record with organization_name B and collection_name "org_" + B, and the
\* caller's Admin record has organization B (requests served one at a time).
C3_RenameConsistency ==
    \A p \in Procs :
        Renamed(p) =>
            LET A == req[p].caller.org_id
                B == Normalize(req[p].organization_name)
                gotB == get_org(organizations, req[p].organization_name)
            IN  /\ get_org(organizations, A) = Err(404)
                /\ gotB.status = 200
                /\ gotB.body._id = StrId(org[p]._id)
                /\ gotB.body.organization_name = B
                /\ gotB.body.collection_name = <<"o", "r", "g", "_">> \o B
                /\ resp[p] = gotB
                /\ \A a \in admins :
                      a._id = ObjectId(req[p].caller.admin_id) => a.organization = B

\* C3 witness: a rename has been answered and the caller's Admin record exists.
C3_Witness ==
    \E p \in Procs :
        /\ Renamed(p)
        /\ req[p].organization_name # Normalize(req[p].organization_name)
        /\ \E a \in admins :
              /\ a._id = ObjectId(req[p].caller.admin_id)
              /\ a.organization = Normalize(req[p].organization_name)

\* C5: no step of an update writes an Organization record other than the one
\* found under the caller's org_id, nor an Admin record other than the one
\* whose _id is the caller's admin_id; the payload's name is only the value
\* written, never the selector.
C5_UpdateTargetsOwn ==
    [][\A p \in Procs :
          (pc[p] \in UpdatePcs /\ pc'[p] # pc[p]) =>
            LET caller == req[p].caller IN
            /\ (pc[p] = "u_find" /\ org'[p] # NoDoc) =>
                  /\ org'[p].organization_name = caller.org_id
                  /\ \E i \in 1..Len(organizations) : organizations[i] = org'[p]
            /\ Len(organizations') = Len(organizations)
            /\ \A i \in 1..Len(organizations) :
                  organizations'[i] # organizations[i] =>
                      /\ organizations[i]._id = org[p]._id
                      /\ org[p].organization_name = caller.org_id
                      /\ organizations'[i].organization_name =
                            Normalize(req[p].organization_name)
            /\ { a \in admins : a._id # ObjectId(caller.admin_id) }
                  = { a \in admins' : a._id # ObjectId(caller.admin_id) }]_vars

\* C5 witness: a rename has rewritten the caller's Organization and Admin
\* record while another Organization and another Admin record are stored.
C5_Witness ==
    \E p \in Procs :
        /\ Renamed(p)
        /\ Len(organizations) = 2
        /\ \E i \in 1..2 : organizations[i]._id # org[p]._id
        /\ \E i \in 1..2 :
              /\ organizations[i]._id = org[p]._id
              /\ organizations[i].organization_name = Normalize(req[p].organization_name)
        /\ \E a \in admins : a._id # ObjectId(req[p].caller.admin_id)
        /\ \E a \in admins :
              /\ a._id = ObjectId(req[p].caller.admin_id)
              /\ a.organization = Normalize(req[p].organization_name)

\* C6: when delete(caller, N) has answered {status: "deleted"}, get(N)
\* answers NotFound, no Admin record has the _id stored as admin_id in the
\* deleted Organization, and the tenant collection org_N does not exist
\* (requests served one at a time).
C6_DeleteComplete ==
    \A p \in Procs :
        (Answered(p, "delete", 200) /\ resp[p].body = [status |-> "deleted"]) =>
            /\ get_org(organizations, req[p].organization_name) = Err(404)
            /\ ~ \E a \in admins : a._id = ObjectId(org[p].admin_id)
            /\ (<<"o", "r", "g", "_">> \o Normalize(req[p].organization_name))
                  \notin colls

\* C6 witness: a delete has been answered with "deleted" after it dropped
\* the collection and removed the Admin and the Organization record.
C6_Witness ==
    \E p \in Procs :
        /\ Answered(p, "delete", 200)
        /\ req[p].organization_name # Normalize(req[p].organization_name)
        /\ Cardinality(wlog[p]) = 3
        /\ organizations # <<>>
        /\ admins # {}
        /\ colls # {}

\* C7: when the existence check of create finds an Organization with the
\* normalized name, create answers 400 Conflict at that step, having
\* provisioned no collection and inserted no Admin and no Organization
\* record: the store is unchanged (a check that itself raises answers 500).
C7_DuplicateCreate ==
    [][\A p \in Procs :
          (/\ pc[p] = "c_find"
           /\ pc'[p] # "c_find"
           /\ find_one(organizations, Normalize(req[p].organization_name)) # NoDoc
           /\ resp'[p] # Err(500))
          => /\ pc'[p] = "done"
             /\ resp'[p] = Err(400)
             /\ wlog'[p] = {}
             /\ UNCHANGED <<store, nextOid>>]_vars

\* C7 witness: a create under a raw name with blanks or capitals has been
\* answered 400 while the record with the normalized name is stored.
C7_Witness ==
    \E p \in Procs :
        /\ Answered(p, "create", 400)
        /\ req[p].organization_name # Normalize(req[p].organization_name)
        /\ wlog[p] = {}
        /\ find_one(organizations, Normalize(req[p].organization_name)) # NoDoc

\* C8: an update whose normalized payload name differs from the caller's
\* org_id goes from the lookup of its own record to the uniqueness check
\* without a write, and when that check finds an Organization with the new
\* name it answers 400 Conflict, the request having written nothing:
\* organizations, admins (email and password included) and the tenant
\* collections are as they were (a check that itself raises answers 500).
C8_RenameConflict ==
    [][\A p \in Procs :
          (/\ pc[p] \in {"u_find", "u_uniq"}
           /\ pc'[p] # pc[p]
           /\ Normalize(req[p].organization_name) # req[p].caller.org_id
           /\ resp'[p] # Err(500))
          => /\ wlog'[p] = {}
             /\ UNCHANGED store
             /\ pc[p] = "u_find" =>
                   \/ pc'[p] = "u_uniq"
                   \/ pc'[p] = "done" /\ resp'[p] = Err(404)
             /\ (/\ pc[p] = "u_uniq"
                 /\ find_one(organizations,
                             Normalize(req[p].organization_name)) # NoDoc)
                   => pc'[p] = "done" /\ resp'[p] = Err(400)]_vars

\* C8 witness: a rename to a taken name, carrying a new email and password,
\* has been answered 400 and the caller's Admin record has the old values.
C8_Witness ==
    \E p \in Procs :
        /\ Answered(p, "update", 400)
        /\ Truthy(req[p].email)
        /\ Truthy(req[p].password)
        /\ req[p].organization_name # Normalize(req[p].organization_name)
        /\ wlog[p] = {}
        /\ \E a \in admins :
              /\ a._id = ObjectId(req[p].caller.admin_id)
              /\ a.email # req[p].email
              /\ ~verify_password(req[p].password, a.password)

\* p serves an update that keeps the name and carries a credential
CredentialOnly(p) ==
    /\ req[p].op = "update"
    /\ Normalize(req[p].organization_name) = req[p].caller.org_id
    /\ Truthy(req[p].email) \/ Truthy(req[p].password)

\* C9: an update whose normalized payload name equals the caller's org_id
\* and which carries an email and/or a password writes nothing but the
\* email and/or password of the Admin record with the caller's admin_id:
\* it passes through one write per field carried, the stored password is
\* the hash, verifies against the new password and is not the plaintext;
\* organizations, tenant collections, every other Admin record and that
\* Admin's role and organization are unchanged by each of its steps (a
\* store call that raises ends the request with 500 and writes nothing).
C9_CredentialOnly ==
    [][\A p \in Procs :
          (pc[p] \in UpdatePcs /\ pc'[p] # pc[p] /\ CredentialOnly(p)) =>
            LET id == ObjectId(req[p].caller.admin_id)
                \* the step is the field's write, not a store call that raised
                email_write == pc[p] = "u_email" /\ pc'[p] # "done"
                pw_write == pc[p] = "u_pw" /\ pc'[p] # "done"
            IN
            /\ UNCHANGED <<organizations, colls>>
            /\ { a \in admins : a._id # id } = { a \in admins' : a._id # id }
            /\ \A b \in admins' : b._id = id => \E a \in admins : a._id = id
            /\ \A a \in admins : a._id = id =>
                  \E b \in admins' :
                      /\ b._id = id
                      /\ b.role = a.role
                      /\ b.organization = a.organization
                      /\ b.email = IF email_write THEN req[p].email ELSE a.email
                      /\ IF pw_write
                         THEN /\ verify_password(req[p].password, b.password)
                              /\ b.password # req[p].password
                         ELSE b.password = a.password
            /\ pc[p] = "u_email" => Truthy(req[p].email)
            /\ pc[p] = "u_pw" => Truthy(req[p].password)
            /\ pc'[p] = "u_email" => pc[p] = "u_find"
            /\ pc'[p] = "u_pw" =>
                  pc[p] = IF Truthy(req[p].email) THEN "u_email" ELSE "u_find"
            /\ pc'[p] = "u_read" =>
                  pc[p] = IF Truthy(req[p].password) THEN "u_pw" ELSE "u_email"]_vars

\* C9 witness: an update carrying only a new password has been answered 200;
\* the caller's Admin record verifies it and keeps its email.
C9_Witness ==
    \E p \in Procs :
        /\ Answered(p, "update", 200)
        /\ CredentialOnly(p)
        /\ ~Truthy(req[p].email)
        /\ resp[p].body.organization_name = req[p].caller.org_id
        /\ \E a \in admins :
              /\ a._id = ObjectId(req[p].caller.admin_id)
              /\ verify_password(req[p].password, a.password)
              /\ a.email \in Emails
              /\ a.organization = req[p].caller.org_id

\* C10: there is no reachable state, in the middle of a create or after a
\* create that failed, in which create has provisioned the collection org_N
\* while no Organization record named N exists.
C10_AtomicProvisioning ==
    \A p \in Procs :
        (/\ req[p].op = "create"
         /\ [c |-> "tenant",
             name |-> <<"o", "r", "g", "_">> \o Normalize(req[p].organization_name)]
               \in wlog[p]
         /\ (<<"o", "r", "g", "_">> \o Normalize(req[p].organization_name)) \in colls)
        => find_one(organizations, Normalize(req[p].organization_name)) # NoDoc

\* p serves a create whose insert of Admin or Organization has just executed
Inserted(p) ==
    /\ pc[p] \in {"c_admin", "c_org"}
    /\ pc'[p] # pc[p]
    /\ wlog'[p] # wlog[p]

\* C11: the store enforces no uniqueness: a create that has passed its
\* existence check is never turned away afterwards.  Each insert it issues
\* adds a record of its own, with a fresh _id, whatever records of the same
\* name other creates have inserted meanwhile: the Admin insert adds an
\* Admin for the name, the Organization insert appends an Organization of
\* that name referring to that Admin and the create answers 200.
C11_CreateRace ==
    [][\A p \in Procs :
          Inserted(p) =>
            LET N == Normalize(req[p].organization_name) IN
            /\ pc[p] = "c_admin" =>
                  /\ pc'[p] = "c_org"
                  /\ organizations' = organizations
                  /\ \A a \in admins : a._id # res'[p]
                  /\ \E a \in admins' :
                        /\ a._id = res'[p]
                        /\ a.organization = N
                        /\ admins' = admins \cup {a}
            /\ pc[p] = "c_org" =>
                  /\ admins' = admins
                  /\ Len(organizations') = Len(organizations) + 1
                  /\ SubSeq(organizations', 1, Len(organizations)) = organizations
                  /\ \A i \in 1..Len(organizations) :
                        organizations[i]._id # organizations'[Len(organizations')]._id
                  /\ organizations'[Len(organizations')].organization_name = N
                  /\ organizations'[Len(organizations')].admin_id = StrId(res[p])
                  /\ resp'[p].status = 200
                  /\ resp'[p].body.admin_id = StrId(res[p])]_vars

\* C11 witness: two creates for the same normalized name have both answered
\* 200; two Organization records of that name are stored, each referring to
\* its own Admin record.
C11_Witness ==
    \E p, q \in Procs :
        /\ p # q
        /\ Answered(p, "create", 200)
        /\ Answered(q, "create", 200)
        /\ Normalize(req[p].organization_name) = Normalize(req[q].organization_name)
        /\ resp[p].body.admin_id # resp[q].body.admin_id
        /\ Len(organizations) = 2
        /\ organizations[1].organization_name = organizations[2].organization_name
        /\ {organizations[1].admin_id, organizations[2].admin_id}
              = {resp[p].body.admin_id, resp[q].body.admin_id}
        /\ \A i \in 1..2 : \E a \in admins :
              /\ StrId(a._id) = organizations[i].admin_id
              /\ a.organization = organizations[i].organization_name

\* C12: create and get act on the trimmed, lower-cased name.  Normalizing a
\* normalized name changes nothing; every stored organization_name is in
\* normalized form; right after a create has answered 200, a get with any
\* raw name of the same normalized form answers 200 with the record that
\* create stored, whose organization_name is the normalized name; a get that
\* answered 200 returned a record named by the normalized form of its name.
C12_Normalization ==
    /\ \A r \in RawNames : Normalize(Normalize(r)) = Normalize(r)
    /\ \A i \in 1..Len(organizations) :
          Normalize(organizations[i].organization_name)
              = organizations[i].organization_name
    /\ \A p \in Procs :
          Answered(p, "create", 200) =>
            \A r \in RawNames :
                Normalize(r) = Normalize(req[p].organization_name) =>
                  /\ get_org(organizations, r).status = 200
                  /\ get_org(organizations, r).body.organization_name
                        = Normalize(req[p].organization_name)
                  /\ get_org(organizations, r).body.admin_id
                        = resp[p].body.admin_id
                  /\ get_org(organizations, r).body.collection_name
                        = resp[p].body.collection_name
                  /\ resp[p].body.organization_name
                        = Normalize(req[p].organization_name)
    /\ \A p \in Procs :
          Answered(p, "get", 200) =>
            /\ resp[p].body.organization_name
                  = Normalize(req[p].organization_name)
            /\ \E i \in 1..Len(organizations) :
                  PublicOrg(organizations[i]) = resp[p].body

\* C12 witness: a create under a raw name that is not in normalized form has
\* answered 200 and a get under a different raw name finds its record.
C12_Witness ==
    \E p \in Procs : \E r \in RawNames :
        /\ Answered(p, "create", 200)
        /\ req[p].organization_name # Normalize(req[p].organization_name)
        /\ r # req[p].organization_name
        /\ Normalize(r) = Normalize(req[p].organization_name)
        /\ get_org(organizations, r).status = 200
        /\ get_org(organizations, r).body.admin_id = resp[p].body.admin_id

\* no Organization record is stored under name n
Missing(n) == \A i \in 1..Len(organizations) : organizations[i].organization_name # n

\* C13: an update whose caller's org_id names no Organization record, and a
\* delete of the caller's own org_id when no record of that name exists,
\* answer 404 at their existence check (unless the lookup itself raises) and
\* end there: the request has issued no write, drop or delete and the store
\* is as it was.
C13_MissingRecord ==
    [][\A p \in Procs :
          /\ ( /\ pc[p] = "u_find"
               /\ pc'[p] # pc[p]
               /\ Missing(req[p].caller.org_id)
               /\ resp'[p] # Err(500) )
             => /\ pc'[p] = "done"
                /\ resp'[p] = Err(404)
                /\ wlog'[p] = {}
                /\ UNCHANGED store
          /\ ( /\ pc[p] = "d_auth"
               /\ pc'[p] # pc[p] )
             => /\ wlog'[p] = {}
                /\ UNCHANGED store
          /\ ( /\ pc[p] = "d_find"
               /\ pc'[p] # pc[p]
               /\ req[p].caller.org_id = Normalize(req[p].organization_name)
               /\ Missing(req[p].caller.org_id)
               /\ resp'[p] # Err(500) )
             => /\ pc'[p] = "done"
                /\ resp'[p] = Err(404)
                /\ wlog'[p] = {}
                /\ UNCHANGED store]_vars

\* C13 witness: an update and a delete of a caller whose organization has no
\* record have both answered 404.
C13_Witness ==
    \E p, q \in Procs :
        /\ Answered(p, "update", 404)
        /\ Missing(req[p].caller.org_id)
        /\ Answered(q, "delete", 404)
        /\ req[q].caller.org_id = Normalize(req[q].organization_name)
        /\ Missing(req[q].caller.org_id)
        /\ wlog[p] = {}
        /\ wlog[q] = {}

\* the write log of p holds a write to collection c
Wrote(p, c) == \E w \in wlog[p] : w.c = c

\* C14: a create commits in the order tenant collection, Admin record,
\* Organization record, and nothing is undone.  A create has inserted its
\* Organization only after its Admin, and its Admin only after provisioning
\* the collection.  While the create is the only request served so far
\* (running, failed or finished): every Organization record has its Admin
\* record, every Admin record has the tenant collection of its
\* organization, and when the Admin insert has raised, org_N is provisioned
\* and neither an Admin nor an Organization record exists.
C14_CreateOrder ==
    /\ \A p \in Procs :
          req[p].op = "create" =>
            /\ Wrote(p, "organizations") => Wrote(p, "admins")
            /\ Wrote(p, "admins") => Wrote(p, "tenant")
    /\ nreq = 1 =>
          /\ \A i \in 1..Len(organizations) : \E a \in admins :
                /\ StrId(a._id) = organizations[i].admin_id
                /\ a.organization = organizations[i].organization_name
          /\ \A a \in admins : (<<"o", "r", "g", "_">> \o a.organization) \in colls
          /\ \A p \in Procs :
                ( /\ Answered(p, "create", 500)
                  /\ Wrote(p, "tenant")
                  /\ ~Wrote(p, "admins") )
                => /\ colls = {<<"o", "r", "g", "_">> \o Normalize(req[p].organization_name)}
                   /\ admins = {}
                   /\ organizations = <<>>

\* C14 witness: the Admin insert of the only create served so far has raised;
\* the tenant collection stays behind.
C14_Witness ==
    \E p \in Procs :
        /\ nreq = 1
        /\ Answered(p, "create", 500)
        /\ Wrote(p, "tenant")
        /\ ~Wrote(p, "admins")
        /\ colls # {}

\* p serves an update whose payload name differs from the caller's org_id
Renaming(p) ==
    /\ req[p].op = "update"
    /\ Normalize(req[p].organization_name) # req[p].caller.org_id

\* C15: a rename from A to B commits in the order Organization record (name
\* and collection_name in one write), Admin back-reference, tenant
\* migration, and nothing is undone.  The rename has started the migration
\* only after writing the back-reference, and has written the back-reference
\* only after the Organization record.  While the rename is the only request
\* served after the create of A (running, failed or finished): the caller's
\* Admin back-reference is B only if an Organization record is named B with
\* collection_name org_B; org_B exists only if the back-reference is B; and
\* when the back-reference write has raised, the Organization is named B and
\* the back-reference is still A.
C15_RenameOrder ==
    \A p \in Procs :
        Renaming(p) =>
          LET A == req[p].caller.org_id
              B == Normalize(req[p].organization_name)
              me == { a \in admins : StrId(a._id) = req[p].caller.admin_id }
          IN
          /\ Wrote(p, "tenant") => Wrote(p, "admins")
          /\ Wrote(p, "admins") => Wrote(p, "organizations")
          /\ nreq = 2 =>
                /\ (\E a \in me : a.organization = B) =>
                      \E i \in 1..Len(organizations) :
                          /\ organizations[i].organization_name = B
                          /\ organizations[i].collection_name = <<"o", "r", "g", "_">> \o B
                          /\ organizations[i].admin_id = req[p].caller.admin_id
                /\ (<<"o", "r", "g", "_">> \o B) \in colls =>
                      \E a \in me : a.organization = B
                /\ ( /\ Answered(p, "update", 500)
                     /\ Wrote(p, "organizations")
                     /\ ~Wrote(p, "admins") )
                   => /\ ~Missing(B)
                      /\ Missing(A)
                      /\ me # {}
                      /\ \A a \in me : a.organization = A

\* C15 witness: the back-reference write of the rename has raised; the
\* Organization is named B, its Admin still refers to A.
C15_Witness ==
    \E p \in Procs :
        /\ Renaming(p)
        /\ nreq = 2
        /\ Answered(p, "update", 500)
        /\ Wrote(p, "organizations")
        /\ ~Wrote(p, "admins")
        /\ ~Missing(Normalize(req[p].organization_name))
        /\ \E a \in admins : /\ StrId(a._id) = req[p].caller.admin_id
                             /\ a.organization = req[p].caller.org_id

\* C16: a delete of N commits in the order drop of the tenant collection,
\* delete of the Admin record, delete of the Organization record, and
\* nothing is undone.  The delete has removed the Organization only after
\* the Admin, and the Admin only after dropping the collection.  While the
\* delete is the only request served after the create of N and has found the
\* record (running, failed or finished): the record named N is gone only if
\* the Admin it refers to is gone, that Admin is gone only if org_N is gone,
\* and when the second or third step has raised, a record named N is still
\* stored although org_N (and, after the second step, its Admin) is gone.
C16_DeleteOrder ==
    \A p \in Procs :
        req[p].op = "delete" =>
          LET N == Normalize(req[p].organization_name)
              its == IF org[p] = NoDoc THEN {}
                     ELSE { a \in admins : StrId(a._id) = org[p].admin_id }
          IN
          /\ Wrote(p, "organizations") => Wrote(p, "admins")
          /\ Wrote(p, "admins") => Wrote(p, "tenant")
          /\ (nreq = 2 /\ org[p] # NoDoc) =>
                /\ Missing(N) => its = {}
                /\ its = {} => (<<"o", "r", "g", "_">> \o N) \notin colls
                /\ ( /\ Answered(p, "delete", 500)
                     /\ Wrote(p, "tenant")
                     /\ ~Wrote(p, "organizations") )
                   => /\ ~Missing(N)
                      /\ (<<"o", "r", "g", "_">> \o N) \notin colls
                      /\ Wrote(p, "admins") => its = {}

\* C16 witness: the third step of the delete has raised; the Organization
\* record is still stored, its collection and its Admin are gone.
C16_Witness ==
    \E p \in Procs :
        /\ nreq = 2
        /\ Answered(p, "delete", 500)
        /\ Wrote(p, "admins")
        /\ ~Wrote(p, "organizations")
        /\ ~Missing(Normalize(req[p].organization_name))
        /\ admins = {}
        /\ colls = {}

\* C17: an update that has passed its existence check and its uniqueness
\* check answers with an Organization record named by the normalized payload
\* name, with collection_name "org_" + that name, whatever requests
\* interleave: when it comes to re-read the record such a record is stored,
\* and the answer it gives carries that name and collection_name.
C17_UpdateAnswers ==
    \A p \in Procs :
        /\ pc[p] = "u_read" =>
              \E i \in 1..Len(organizations) :
                  /\ organizations[i].organization_name
                        = Normalize(req[p].organization_name)
                  /\ organizations[i].collection_name
                        = <<"o", "r", "g", "_">> \o Normalize(req[p].organization_name)
        /\ Answered(p, "update", 200) =>
              /\ resp[p].body.organization_name = Normalize(req[p].organization_name)
              /\ resp[p].body.collection_name
                    = <<"o", "r", "g", "_">> \o Normalize(req[p].organization_name)

\* no request is in progress and no step of any request served so far has
\* raised: every request accepted so far stands answered, none with 500
Settled ==
    /\ \A p \in Procs : pc[p] \in {"idle", "done"}
    /\ \A p \in Procs : resp[p].status # 500
    /\ Cardinality({ p \in Procs : pc[p] = "done" }) = nreq

\* C18: in every state with no request in progress and no failed step,
\* reached under any interleaving, each Organization record's admin_id
\* identifies an existing Admin record whose back-reference is the
\* Organization's current name, and no other Admin record carries that
\* back-reference.
C18_Consistency ==
    Settled =>
      \A i \in 1..Len(organizations) :
          \E a \in admins :
              /\ StrId(a._id) = organizations[i].admin_id
              /\ a.organization = organizations[i].organization_name
              /\ \A b \in admins :
                    b.organization = organizations[i].organization_name => b = a

\* p serves an update that asks for nothing: the payload name normalizes to
\* the caller's org_id and the payload carries neither email nor password
NoOp(p) ==
    /\ req[p].op = "update"
    /\ Normalize(req[p].organization_name) = req[p].caller.org_id
    /\ req[p].email = None
    /\ req[p].password = None

\* C19: an update that asks for nothing writes nothing.  Each of its steps
\* leaves the Organization records, the Admin records and the tenant
\* collections as they are and issues no write; after the existence check
\* it goes straight to the re-read, and the re-read answers 200 with the
\* stored Organization record named by the caller's org_id (unless the
\* re-read raises).
C19_NoOpUpdate ==
    [][\A p \in Procs :
          (NoOp(p) /\ pc[p] \in {"u_find", "u_read"} /\ pc'[p] # pc[p]) =>
            /\ UNCHANGED store
            /\ wlog'[p] = {}
            /\ pc'[p] \in {"u_read", "done"}
            /\ (pc[p] = "u_find" /\ pc'[p] = "done") => resp'[p].status \in {404, 500}
            /\ (pc[p] = "u_find" /\ ~Missing(req[p].caller.org_id)
                                 /\ resp'[p] # Err(500)) => pc'[p] = "u_read"
            /\ (pc[p] = "u_read" /\ ~Missing(req[p].caller.org_id)
                                 /\ resp'[p] # Err(500)) =>
                  /\ resp'[p].status = 200
                  /\ resp'[p].body.organization_name = req[p].caller.org_id
                  /\ \E i \in 1..Len(organizations) :
                        resp'[p].body = PublicOrg(organizations[i])]_vars

\* C19 witness: an update that asks for nothing has answered 200 with the
\* caller's record, having issued no write.
C19_Witness ==
    \E p \in Procs :
        /\ req[p].op = "update"
        /\ NoOp(p)
        /\ Answered(p, "update", 200)
        /\ wlog[p] = {}
        /\ resp[p].body.organization_name = req[p].caller.org_id
        /\ resp[p].body.admin_id = req[p].caller.admin_id

\* every Organization record has exactly its own Admin record referring to it
Consistent ==
    \A i \in 1..Len(organizations) :
        \E a \in admins :
            /\ StrId(a._id) = organizations[i].admin_id
            /\ a.organization = organizations[i].organization_name
            /\ \A b \in admins :
                  b.organization = organizations[i].organization_name => b = a

\* C20: a caller identity issued when its admin's organization was created
\* and presented again later touches no other tenant.  Stated for the
\* requests of a caller whose Admin record is stored, acting on consistent
\* records: every Organization record an update modifies, and every one a
\* delete removes, has the caller's admin_id as its admin_id, and every
\* Admin record a delete removes is the caller's own.
C20_StaleIdentity ==
    [][\A p \in Procs :
          ( /\ req[p].op \in {"update", "delete"}
            /\ pc'[p] # pc[p]
            /\ Consistent
            /\ \E a \in admins : StrId(a._id) = req[p].caller.admin_id )
          =>
            /\ \A i \in 1..Len(organizations) :
                  (\A j \in 1..Len(organizations') :
                        organizations'[j] # organizations[i])
                  => organizations[i].admin_id = req[p].caller.admin_id
            /\ req[p].op = "delete" =>
                  \A a \in admins \ admins' :
                      StrId(a._id) = req[p].caller.admin_id]_vars
====
